---- MODULE Spec2Model ----
(***************************************************************************)
(* Semantic search over social media posts: the notebook                   *)
(* semantic-search-over_social-media-posts.ipynb run cell by cell.         *)
(*                                                                         *)
(* Numbers.  A numpy vector is modelled exactly, as a tuple of integer     *)
(* numerators over one positive denominator (den = 0 stands for the        *)
(* nan/inf numpy yields on a division by zero); exc names the exception    *)
(* an operation raised, "" when none.  A cosine score is the real number   *)
(* sgn * sqrt(n / d), kept in lowest terms, so that two scores are equal   *)
(* exactly when their records are equal.                                   *)
(***************************************************************************)
EXTENDS Integers, Sequences, FiniteSets, TLC

VARIABLES
    files,                      \* config.json, the posts file, the query file, en_embeddings.p
    pc,                         \* the next cell to run, "done" or "error"
    err,                        \* the exception that stopped the run
    names,                      \* the global names bound so far
    configurations,
    ls_input_queries,
    ls_posts,
    en_embeddings,
    store_arg,                  \* the store passed to the last call of vectorize_posts
    posts,
    tokenized_posts,
    posts_vec_matrix,
    ind2Doc_dict,
    tokenized_queries,
    qi,                         \* number of iterations of the query loop done
    query_embedding,
    cosine_score,
    top_indices,
    top_posts,
    query_posts_similarities,
    output

vars == <<files, pc, err, names, configurations, ls_input_queries, ls_posts,
          en_embeddings, store_arg, posts, tokenized_posts, posts_vec_matrix, ind2Doc_dict,
          tokenized_queries, qi, query_embedding, cosine_score, top_indices,
          top_posts, query_posts_similarities, output>>

(***************************************************************************)
(* Bounds of the model.                                                    *)
(***************************************************************************)
Dim == 2                        \* embedding dimension (300 in the notebook)
MaxPosts == 2                   \* posts in the posts file
MaxQueries == 2                 \* lines in the query file

(***************************************************************************)
(* Small helpers.                                                          *)
(***************************************************************************)
Min(a, b) == IF a <= b THEN a ELSE b
Max(a, b) == IF a >= b THEN a ELSE b
Sgn(a) == IF a < 0 THEN 0 - 1 ELSE IF a = 0 THEN 0 ELSE 1

RECURSIVE GCD(_, _)
GCD(a, b) == IF b = 0 THEN a ELSE GCD(b, a % b)

Reverse(s) == [i \in 1..Len(s) |-> s[Len(s) + 1 - i]]

SeqsUpTo(S, n) == UNION {[1..m -> S] : m \in 0..n}

NoErr == [exc |-> "", at |-> ""]
Raise(e, where) == [exc |-> e, at |-> where]

(***************************************************************************)
(* numpy vectors.                                                          *)
(***************************************************************************)
Vec(nums) == [num |-> nums, den |-> 1, exc |-> ""]

\* np.zeros(300)
np_zeros == Vec([i \in 1..Dim |-> 0])

\* a += b : elementwise, a length-1 operand is broadcast, any other
\* difference of lengths raises ValueError
np_iadd(a, b) ==
    IF a.exc # "" THEN a
    ELSE IF b.exc # "" THEN [a EXCEPT !.exc = b.exc]
    ELSE IF Len(b.num) = Len(a.num)
    THEN [num |-> [i \in 1..Len(a.num) |-> a.num[i] * b.den + b.num[i] * a.den],
          den |-> a.den * b.den, exc |-> ""]
    ELSE IF Len(b.num) = 1
    THEN [num |-> [i \in 1..Len(a.num) |-> a.num[i] * b.den + b.num[1] * a.den],
          den |-> a.den * b.den, exc |-> ""]
    ELSE [a EXCEPT !.exc = "ValueError"]

\* np.divide(a, n) : a new array; dividing by 0 yields nan/inf, no exception
np_divide(a, n) ==
    IF a.exc # "" THEN a ELSE [a EXCEPT !.den = a.den * n]

\* en_embeddings[token] in place of .get: a missing key raises
dict_getitem(d, key, default) ==
    IF key \in DOMAIN d THEN d[key] ELSE [default EXCEPT !.exc = "KeyError"]

\* en_embeddings.get(token, default)
dict_get(d, key, default) == IF key \in DOMAIN d THEN d[key] ELSE default

(***************************************************************************)
(* utils.py (not part of the sources at hand): modelled from the           *)
(* interfaces the specification gives for it.  A text is a sequence of     *)
(* words; cleaning strips the hashtag/URL words, tokenizing normalises     *)
(* each remaining word to its token.                                       *)
(***************************************************************************)
JunkWords == {"#x"}

Stem(w) == IF w = "A" THEN "a" ELSE w

IsWord(w) == w \notin JunkWords

clean(text) == SelectSeq(text, IsWord)

clean_posts(texts) == [i \in 1..Len(texts) |-> clean(texts[i])]

tokenize(text) == [i \in 1..Len(text) |-> Stem(text[i])]

tokenize_posts(texts) == [i \in 1..Len(texts) |-> tokenize(texts[i])]

RECURSIVE DotFrom(_, _, _)
DotFrom(a, b, i) ==
    IF i > Len(a) THEN 0 ELSE a[i] * b[i] + DotFrom(a, b, i + 1)

\* the dot product of the numerators; the (positive) denominators cancel
\* in dot(q, r) / (|q| * |r|)
Dot(a, b) == DotFrom(a.num, b.num, 1)

ZeroScore == [sgn |-> 0, n |-> 0, d |-> 1]

\* dot(q, r) / (|q| * |r|), and 0 when either norm is zero
cosine(r, q) ==
    LET dp == Dot(r, q)
        nn == Dot(r, r) * Dot(q, q)
        g  == GCD(dp * dp, nn)
    IN  IF nn = 0 \/ dp = 0 THEN ZeroScore
        ELSE [sgn |-> Sgn(dp), n |-> (dp * dp) \div g, d |-> nn \div g]

\* one score per row, indexed 0 .. N-1
cosine_similarity(matrix, q) ==
    [idx \in 0..(Len(matrix) - 1) |-> cosine(matrix[idx + 1], q)]

\* a < b as real numbers
ScoreLess(a, b) ==
    IF a.sgn # b.sgn THEN a.sgn < b.sgn
    ELSE IF a.sgn = 1 THEN a.n * b.d < b.n * a.d
    ELSE IF a.sgn = 0 - 1 THEN a.n * b.d > b.n * a.d
    ELSE FALSE

\* the loop body without its division
embedding_step_no_divide(post, token, doc_embedding) ==
    np_iadd(doc_embedding, dict_get(en_embeddings, token, np_zeros))

\* the loop body dividing the running sum before the token is added
embedding_step_divide_first(post, token, doc_embedding) ==
    np_iadd(np_divide(doc_embedding, Len(post)),
            dict_get(en_embeddings, token, np_zeros))

(***************************************************************************)
(* The notebook's functions.                                               *)
(***************************************************************************)
\* the body of the loop of compute_doc_embedding
embedding_step(post, token, doc_embedding) ==
    np_divide(np_iadd(doc_embedding, dict_get(en_embeddings, token, np_zeros)),
              Len(post))

RECURSIVE embedding_loop(_, _, _)
embedding_loop(post, i, doc_embedding) ==
    IF i > Len(post) \/ doc_embedding.exc # "" THEN doc_embedding
    ELSE embedding_loop(post, i + 1, embedding_step(post, post[i], doc_embedding))

\* reads the global en_embeddings
compute_doc_embedding(post) == embedding_loop(post, 1, np_zeros)

\* the state of vectorize_posts before its loop
vectorize_start ==
    [i |-> 0, ind2Doc_dict |-> <<>>, document_vec_l |-> <<>>,
     document_vec_matrix |-> <<>>, bound |-> FALSE, exc |-> ""]

\* the loop body with the new row put in front of the list
vectorize_step_prepend(st, post) ==
    LET doc_embedding == compute_doc_embedding(post)
        document_vec_l == <<doc_embedding>> \o st.document_vec_l
    IN  IF doc_embedding.exc # "" THEN [st EXCEPT !.exc = doc_embedding.exc]
        ELSE [i |-> st.i + 1,
              ind2Doc_dict |-> [k \in 0..st.i |->
                                   IF k = st.i THEN doc_embedding
                                   ELSE st.ind2Doc_dict[k]],
              document_vec_l |-> document_vec_l,
              document_vec_matrix |-> document_vec_l,
              bound |-> TRUE,
              exc |-> ""]

\* the body of the loop of vectorize_posts
vectorize_step(st, post) ==
    LET doc_embedding == compute_doc_embedding(post)
        document_vec_l == Append(st.document_vec_l, doc_embedding)
    IN  IF doc_embedding.exc # "" THEN [st EXCEPT !.exc = doc_embedding.exc]
        ELSE [i |-> st.i + 1,
              ind2Doc_dict |-> [k \in 0..st.i |->
                                   IF k = st.i THEN doc_embedding
                                   ELSE st.ind2Doc_dict[k]],
              document_vec_l |-> document_vec_l,
              document_vec_matrix |-> document_vec_l,
              bound |-> TRUE,
              exc |-> ""]

RECURSIVE vectorize_loop(_, _, _)
vectorize_loop(ps, j, st) ==
    IF j > Len(ps) \/ st.exc # "" THEN st
    ELSE vectorize_loop(ps, j + 1, vectorize_step(st, ps[j]))

\* the second parameter shadows the global of the same name and is not read
vectorize_posts(ps, embeddings_arg) ==
    LET st == vectorize_loop(ps, 1, vectorize_start)
    IN  IF st.exc = "" /\ ~st.bound
        THEN [st EXCEPT !.exc = "UnboundLocalError"]
        ELSE st

Permutations0(n) ==
    {p \in [1..n -> 0..(n - 1)] : \A i, j \in 1..n : p[i] = p[j] => i = j}

\* np.argsort (quicksort, not stable): every ascending order of the scores
np_argsort(scores) ==
    LET n == Cardinality(DOMAIN scores)
    IN  {p \in Permutations0(n) :
            \A i \in 1..(n - 1) : ~ScoreLess(scores[p[i + 1]], scores[p[i]])}

\* s[start:]
py_slice_from(s, start) ==
    LET lo == IF start < 0 THEN Max(Len(s) + start, 0) ELSE Min(start, Len(s))
    IN  SubSeq(s, lo + 1, Len(s))

\* order[-k:] without the reversal
top_k_not_reversed(order, k) == py_slice_from(order, 0 - k)

\* order[-k+1:][::-1]
top_k_off_by_one(order, k) == Reverse(py_slice_from(order, 1 - k))

\* order[:k][::-1], the minus sign of the slice forgotten
top_k_lowest(order, k) == Reverse(SubSeq(order, 1, Min(Max(k, 0), Len(order))))

\* order[-k:][::-1]
top_k_reversed(order, k) == Reverse(py_slice_from(order, 0 - k))

RECURSIVE str_join(_, _)
\* sep.join(tokens)
str_join(sep, tokens) ==
    IF Len(tokens) = 0 THEN ""
    ELSE IF Len(tokens) = 1 THEN tokens[1]
    ELSE tokens[1] \o sep \o str_join(sep, Tail(tokens))

Digit(n) ==
    CASE n = 0 -> "0" [] n = 1 -> "1" [] n = 2 -> "2" [] n = 3 -> "3"
      [] n = 4 -> "4" [] n = 5 -> "5" [] n = 6 -> "6" [] n = 7 -> "7"
      [] n = 8 -> "8" [] n = 9 -> "9"

RECURSIVE nat_str(_)
nat_str(n) == IF n < 10 THEN Digit(n) ELSE nat_str(n \div 10) \o Digit(n % 10)

\* str(idx)
int_str(n) == IF n < 0 THEN "-" \o nat_str(0 - n) ELSE nat_str(n)

\* str(score): the text of the exact value, sign then n/d under the root
float_str(s) ==
    (IF s.sgn < 0 THEN "-" ELSE "") \o "sqrt(" \o nat_str(s.n) \o "/" \o nat_str(s.d) \o ")"

\* an entry whose text is taken from the cleaned posts
post_record_cleaned(idx, texts, scores) ==
    [post_ID |-> int_str(idx),
     post_text |-> posts[idx + 1],
     sim_score |-> float_str(scores[idx])]

\* one entry of top_posts
post_record(idx, texts, scores) ==
    [post_ID |-> int_str(idx),
     post_text |-> texts[idx + 1],
     sim_score |-> float_str(scores[idx])]

\* d.setdefault(key, value): an existing entry is kept
dict_setdefault(d, key, value) ==
    [k \in (DOMAIN d) \cup {key} |-> IF k \in DOMAIN d THEN d[k] ELSE value]

\* d[key] = value
dict_set(d, key, value) ==
    [k \in (DOMAIN d) \cup {key} |-> IF k = key THEN value ELSE d[k]]

(***************************************************************************)
(* The files a run reads.                                                  *)
(***************************************************************************)
Unit(j) == [i \in 1..Dim |-> IF i = j THEN 1 ELSE 0]

NegUnit(j) == [i \in 1..Dim |-> IF i = j THEN 0 - 1 ELSE 0]

StoreA == ("a" :> Vec(Unit(1))) @@ ("b" :> Vec(Unit(Dim)))

StoreB == ("a" :> Vec(Unit(1))) @@ ("u" :> Vec(NegUnit(1)))

Stores == {StoreA, StoreB}

PostTexts == {<<"a">>, <<"a", "b">>, <<"u", "#x">>}

QueryTexts == {<<"b", "A">>, <<>>}

TopKValues == (0 - 1)..MaxPosts

Configs ==
    {("ifpreprocess" :> b) @@ ("top-k" :> k) : b \in BOOLEAN, k \in TopKValues}

Files ==
    [config : Configs,
     posts : SeqsUpTo(PostTexts, MaxPosts),
     queries : SeqsUpTo(QueryTexts, MaxQueries),
     embeddings : Stores]

(***************************************************************************)
(* The run.                                                                *)
(***************************************************************************)
Fresh ==
    /\ pc = "read_configurations"
    /\ err = NoErr
    /\ names = {}
    /\ configurations = <<>>
    /\ ls_input_queries = <<>>
    /\ ls_posts = <<>>
    /\ en_embeddings = <<>>
    /\ store_arg = <<>>
    /\ posts = <<>>
    /\ tokenized_posts = <<>>
    /\ posts_vec_matrix = <<>>
    /\ ind2Doc_dict = <<>>
    /\ tokenized_queries = <<>>
    /\ qi = 0
    /\ query_embedding = np_zeros
    /\ cosine_score = <<>>
    /\ top_indices = <<>>
    /\ top_posts = <<>>
    /\ query_posts_similarities = <<>>
    /\ output = <<>>

Init == files \in Files /\ Fresh

\* configurations = read_configurations("/config.json")
ReadConfigurations ==
    /\ pc = "read_configurations"
    /\ configurations' = files.config
    /\ names' = names \cup {"configurations"}
    /\ pc' = "load_data"
    /\ UNCHANGED <<files, store_arg, err, ls_input_queries, ls_posts, en_embeddings, posts,
                   tokenized_posts, posts_vec_matrix, ind2Doc_dict, tokenized_queries,
                   qi, query_embedding, cosine_score, top_indices, top_posts,
                   query_posts_similarities, output>>

\* ls_input_queries, ls_posts = load_data(...)
LoadData ==
    /\ pc = "load_data"
    /\ ls_input_queries' = files.queries
    /\ ls_posts' = files.posts
    /\ names' = names \cup {"ls_input_queries", "ls_posts"}
    /\ pc' = "load_embeddings"
    /\ UNCHANGED <<files, store_arg, err, configurations, en_embeddings, posts,
                   tokenized_posts, posts_vec_matrix, ind2Doc_dict, tokenized_queries,
                   qi, query_embedding, cosine_score, top_indices, top_posts,
                   query_posts_similarities, output>>

\* en_embeddings = pickle.load(...)
LoadEmbeddings ==
    /\ pc = "load_embeddings"
    /\ en_embeddings' = files.embeddings
    /\ names' = names \cup {"en_embeddings"}
    /\ pc' = "preprocess_posts"
    /\ UNCHANGED <<files, store_arg, err, configurations, ls_input_queries, ls_posts, posts,
                   tokenized_posts, posts_vec_matrix, ind2Doc_dict, tokenized_queries,
                   qi, query_embedding, cosine_score, top_indices, top_posts,
                   query_posts_similarities, output>>

\* if configurations["ifpreprocess"]: posts = clean_posts(ls_posts)
\* tokenized_posts = tokenize_posts(posts)
PreprocessPosts ==
    /\ pc = "preprocess_posts"
    /\ IF "ifpreprocess" \notin DOMAIN configurations
       THEN /\ pc' = "error"
            /\ err' = Raise("KeyError", "preprocess_posts")
            /\ UNCHANGED <<names, posts, tokenized_posts>>
       ELSE LET cleaned == configurations["ifpreprocess"]
                names1 == IF cleaned THEN names \cup {"posts"} ELSE names
                posts1 == IF cleaned THEN clean_posts(ls_posts) ELSE posts
            IN  /\ posts' = posts1
                /\ IF "posts" \notin names1
                   THEN /\ pc' = "error"
                        /\ err' = Raise("NameError", "preprocess_posts")
                        /\ UNCHANGED <<names, tokenized_posts>>
                   ELSE /\ tokenized_posts' = tokenize_posts(posts1)
                        /\ names' = names1 \cup {"tokenized_posts"}
                        /\ pc' = "vectorize_posts"
                        /\ UNCHANGED err
    /\ UNCHANGED <<files, store_arg, configurations, ls_input_queries, ls_posts, en_embeddings,
                   posts_vec_matrix, ind2Doc_dict, tokenized_queries,
                   qi, query_embedding, cosine_score, top_indices, top_posts,
                   query_posts_similarities, output>>

\* the store as it would be left were the running total the stored vector of
\* the first token itself (doc_embedding = en_embeddings[post[0]] followed by
\* in-place +=): that vector is overwritten with the sum of the embeddings
store_after_encoding_aliased(store, post) ==
    IF Len(post) = 0 \/ post[1] \notin DOMAIN store THEN store
    ELSE LET total == embedding_loop(post, 2, store[post[1]])
         IN  [store EXCEPT ![post[1]] = total]

\* the store as compute_doc_embedding leaves it: the running total is a fresh
\* np.zeros(300) array and np.divide returns a new array, so no stored vector
\* is written
store_after_encoding(store, post) == store

RECURSIVE store_after_all(_, _, _)
store_after_all(store, ps, j) ==
    IF j > Len(ps) THEN store
    ELSE store_after_all(store_after_encoding(store, ps[j]), ps, j + 1)

\* posts_vec_matrix, ind2Doc_dict = vectorize_posts(tokenized_posts, store)
VectorizeCall(store) ==
    /\ pc = "vectorize_posts"
    /\ store_arg' = store
    /\ en_embeddings' = store_after_all(en_embeddings, tokenized_posts, 1)
    /\ LET r == vectorize_posts(tokenized_posts, store)
       IN  IF r.exc # ""
           THEN /\ pc' = "error"
                /\ err' = Raise(r.exc, "vectorize_posts")
                /\ UNCHANGED <<names, posts_vec_matrix, ind2Doc_dict>>
           ELSE /\ posts_vec_matrix' = r.document_vec_matrix
                /\ ind2Doc_dict' = r.ind2Doc_dict
                /\ names' = names \cup {"posts_vec_matrix", "ind2Doc_dict"}
                /\ pc' = "preprocess_queries"
                /\ UNCHANGED err
    /\ UNCHANGED <<files, configurations, ls_input_queries, ls_posts,
                   posts, tokenized_posts, tokenized_queries,
                   qi, query_embedding, cosine_score, top_indices, top_posts,
                   query_posts_similarities, output>>

\* posts_vec_matrix, ind2Doc_dict = vectorize_posts(tokenized_posts, en_embeddings)
VectorizePosts == VectorizeCall(en_embeddings)

\* if configurations["ifpreprocess"]: ls_input_queries = clean_posts(ls_input_queries)
\* tokenized_queries = tokenize_posts(ls_input_queries)
PreprocessQueries ==
    /\ pc = "preprocess_queries"
    /\ IF "ifpreprocess" \notin DOMAIN configurations
       THEN /\ pc' = "error"
            /\ err' = Raise("KeyError", "preprocess_queries")
            /\ UNCHANGED <<names, ls_input_queries, tokenized_queries>>
       ELSE /\ ls_input_queries' = IF configurations["ifpreprocess"]
                                   THEN clean_posts(ls_input_queries)
                                   ELSE ls_input_queries
            /\ tokenized_queries' = tokenize_posts(ls_input_queries')
            /\ names' = names \cup {"tokenized_queries"}
            /\ pc' = "query_cell"
            /\ UNCHANGED err
    /\ UNCHANGED <<files, store_arg, configurations, ls_posts, en_embeddings,
                   posts, tokenized_posts, posts_vec_matrix, ind2Doc_dict,
                   qi, query_embedding, cosine_score, top_indices, top_posts,
                   query_posts_similarities, output>>

\* query_posts_similarities = {}
QueryCellStart ==
    /\ pc = "query_cell"
    /\ query_posts_similarities' = <<>>
    /\ qi' = 0
    /\ names' = names \cup {"query_posts_similarities"}
    /\ pc' = IF Len(tokenized_queries) = 0 THEN "write_output" ELSE "query_loop"
    /\ UNCHANGED <<files, store_arg, err, configurations, ls_input_queries, ls_posts,
                   en_embeddings, posts, tokenized_posts, posts_vec_matrix,
                   ind2Doc_dict, tokenized_queries, query_embedding, cosine_score,
                   top_indices, top_posts, output>>

\* the lookup as ls_posts[idx % len(ls_posts)]: an index past the end wraps
\* around to a text of another position
top_posts_of_wrapped(indices, texts, scores) ==
    IF Len(indices) > 0 /\ Len(texts) = 0
    THEN [exc |-> "ZeroDivisionError", list |-> <<>>]
    ELSE LET wrapped == [i \in 1..Cardinality(DOMAIN scores) |-> texts[((i - 1) % Len(texts)) + 1]]
         IN  [exc |-> "",
              list |-> [j \in 1..Len(indices) |->
                           post_record(indices[j], wrapped, scores)]]

\* the posts of top_posts, or IndexError when ls_posts has no such index
top_posts_of(indices, texts, scores) ==
    IF \E j \in 1..Len(indices) : indices[j] + 1 > Len(texts)
    THEN [exc |-> "IndexError", list |-> <<>>]
    ELSE [exc |-> "",
          list |-> [j \in 1..Len(indices) |-> post_record(indices[j], texts, scores)]]

\* one iteration of: for query in tokenized_queries
QueryIteration ==
    /\ pc = "query_loop"
    /\ en_embeddings' = store_after_encoding(en_embeddings, tokenized_queries[qi + 1])
    /\ LET query == tokenized_queries[qi + 1]
           embedding == compute_doc_embedding(query)
           scores == cosine_similarity(posts_vec_matrix, embedding)
           query_str == str_join(" ", query)
       IN  IF embedding.exc # ""
           THEN /\ pc' = "error"
                /\ err' = Raise(embedding.exc, "compute_doc_embedding")
                /\ UNCHANGED <<qi, query_embedding, cosine_score, top_indices,
                               top_posts, query_posts_similarities>>
           ELSE /\ query_embedding' = embedding
                /\ cosine_score' = scores
                /\ IF "top-k" \notin DOMAIN configurations
                   THEN /\ pc' = "error"
                        /\ err' = Raise("KeyError", "query_loop")
                        /\ UNCHANGED <<qi, top_indices, top_posts,
                                       query_posts_similarities>>
                   ELSE \E order \in np_argsort(scores) :
                          LET indices == top_k_reversed(order, configurations["top-k"])
                              found == top_posts_of(indices, ls_posts, scores)
                          IN  /\ top_indices' = indices
                              /\ IF found.exc # ""
                                 THEN /\ pc' = "error"
                                      /\ err' = Raise(found.exc, "query_loop")
                                      /\ query_posts_similarities' =
                                           dict_set(query_posts_similarities, query_str, <<>>)
                                      /\ UNCHANGED <<qi, top_posts>>
                                 ELSE /\ top_posts' = found.list
                                      /\ query_posts_similarities' =
                                           dict_set(query_posts_similarities, query_str,
                                                    found.list)
                                      /\ qi' = qi + 1
                                      /\ pc' = IF qi + 1 = Len(tokenized_queries)
                                               THEN "write_output" ELSE "query_loop"
                                      /\ UNCHANGED err
    /\ UNCHANGED <<files, store_arg, names, configurations, ls_input_queries, ls_posts,
                   posts, tokenized_posts, posts_vec_matrix,
                   ind2Doc_dict, tokenized_queries, output>>

\* write_output(configurations['output_filepath'], json.dumps(query_posts_similarities))
WriteOutput ==
    /\ pc = "write_output"
    /\ output' = query_posts_similarities
    /\ pc' = "done"
    /\ UNCHANGED <<files, store_arg, err, names, configurations, ls_input_queries, ls_posts,
                   en_embeddings, posts, tokenized_posts, posts_vec_matrix,
                   ind2Doc_dict, tokenized_queries, qi, query_embedding, cosine_score,
                   top_indices, top_posts, query_posts_similarities>>

Next ==
    \/ ReadConfigurations
    \/ LoadData
    \/ LoadEmbeddings
    \/ PreprocessPosts
    \/ VectorizePosts
    \/ PreprocessQueries
    \/ QueryCellStart
    \/ QueryIteration
    \/ WriteOutput

Spec == Init /\ [][Next]_vars

(***************************************************************************)
(* The notebook used interactively: vectorize_posts called with a store    *)
(* of the caller's choice, and the load_data cell run again, after the     *)
(* posts file lost lines, before the search cell.                          *)
(***************************************************************************)
\* vectorize_posts(tokenized_posts, store) for any store
CallVectorizePosts == \E store \in Stores : VectorizeCall(store)

\* ls_input_queries, ls_posts = load_data(...) run again on a shorter posts file
RerunLoadData ==
    /\ pc = "query_cell"
    /\ Len(ls_posts) = Len(posts_vec_matrix)
    /\ \E n \in 0..(Len(ls_posts) - 1) :
          /\ files' = [files EXCEPT !.posts = SubSeq(files.posts, 1, n)]
          /\ ls_posts' = SubSeq(files.posts, 1, n)
    /\ ls_input_queries' = files.queries
    /\ UNCHANGED <<pc, err, names, configurations, en_embeddings, store_arg, posts,
                   tokenized_posts, posts_vec_matrix, ind2Doc_dict, tokenized_queries,
                   qi, query_embedding, cosine_score, top_indices, top_posts,
                   query_posts_similarities, output>>

PositiveTopKConfigs ==
    {("ifpreprocess" :> TRUE) @@ ("top-k" :> k) : k \in 1..MaxPosts}

FilesInteractive ==
    [config : PositiveTopKConfigs,
     posts : SeqsUpTo(PostTexts, MaxPosts),
     queries : SeqsUpTo(QueryTexts, MaxQueries),
     embeddings : Stores]

InitInteractive == files \in FilesInteractive /\ Fresh

NextInteractive == Next \/ CallVectorizePosts \/ RerunLoadData

SpecInteractive == InitInteractive /\ [][NextInteractive]_vars

(***************************************************************************)
(* The end-to-end scenario of a query for one token over three posts: two  *)
(* posts hold the token of the query, the third holds only tokens of       *)
(* orthogonal or opposite embeddings; unknown tokens anywhere.             *)
(***************************************************************************)
\* love, hate, sunny, rainy
StoreSunny ==
    ("l" :> Vec(Unit(1))) @@ ("h" :> Vec(NegUnit(1))) @@
    ("s" :> Vec(Unit(Dim))) @@ ("r" :> Vec(NegUnit(Dim)))

MatchingTexts ==
    {<<"s">>, <<"u", "l", "s", "u">>, <<"s", "u", "u", "u">>, <<"l", "s">>,
     <<"h", "s", "l">>}

OtherTexts == {<<"u", "h", "r", "u">>, <<"h">>, <<"r", "u">>, <<"l", "#x", "r">>}

\* the three posts, the other text at position p
ScenarioPosts ==
    {[i \in 1..3 |-> IF i = p THEN o ELSE IF i = (p % 3) + 1 THEN m1 ELSE m2] :
        p \in 1..3, o \in OtherTexts, m1 \in MatchingTexts, m2 \in MatchingTexts}

FilesScenario ==
    [config : {("ifpreprocess" :> TRUE) @@ ("top-k" :> 2)},
     posts : ScenarioPosts,
     queries : {<<<<"s">>>>},
     embeddings : {StoreSunny}]

InitScenario == files \in FilesScenario /\ Fresh

SpecScenario == InitScenario /\ [][Next]_vars

(***************************************************************************)
(* Runs over configuration files that lack keys.                           *)
(***************************************************************************)
RequiredKeys == {"ifpreprocess", "top-k"}

\* a configuration file holding only the keys of keep
Restrict(config, keep) == [key \in (DOMAIN config) \cap keep |-> config[key]]

PartialConfigs == {Restrict(c, keep) : c \in Configs, keep \in SUBSET RequiredKeys}

FilesPartial ==
    [config : PartialConfigs,
     posts : SeqsUpTo(PostTexts, MaxPosts),
     queries : SeqsUpTo(QueryTexts, MaxQueries),
     embeddings : Stores]

InitPartial == files \in FilesPartial /\ Fresh

SpecPartial == InitPartial /\ [][Next]_vars

(***************************************************************************)
(* Runs over pickled stores that hold a vector of another length than the  *)
(* np.zeros(300) running total.                                            *)
(***************************************************************************)
\* the vector of "a" has one component
StoreShort == ("a" :> Vec(<<1>>)) @@ ("b" :> Vec(Unit(Dim)))

\* the vector of "a" has one component more than the running total
StoreLong == ("a" :> Vec([i \in 1..(Dim + 1) |-> 1])) @@ ("b" :> Vec(Unit(Dim)))

FilesMismatch ==
    [config : PositiveTopKConfigs,
     posts : SeqsUpTo(PostTexts, MaxPosts),
     queries : SeqsUpTo(QueryTexts, MaxQueries),
     embeddings : {StoreShort, StoreLong}]

InitMismatch == files \in FilesMismatch /\ Fresh

SpecMismatch == InitMismatch /\ [][Next]_vars

(***************************************************************************)
(* Properties.                                                             *)
(***************************************************************************)
Range(s) == {s[j] : j \in 1..Len(s)}

TopK == configurations["top-k"]

NPosts == Len(posts_vec_matrix)

\* at least one iteration of the query loop has completed
Ranked == qi >= 1 /\ pc \in {"query_loop", "write_output", "done"}

Score(idx) == cosine_score[idx]

AllKnown(doc) == \A j \in 1..Len(doc) : doc[j] \in DOMAIN en_embeddings

AllAbsent(doc) == \A j \in 1..Len(doc) : doc[j] \notin DOMAIN en_embeddings

IsZeroVector(v) ==
    /\ v.exc = ""
    /\ v.den > 0
    /\ Len(v.num) = Dim
    /\ \A i \in 1..Dim : v.num[i] = 0

\* equality of two vectors as vectors of rationals
VecEq(a, b) ==
    /\ a.exc = "" /\ b.exc = ""
    /\ Len(a.num) = Len(b.num)
    /\ \A i \in 1..Len(a.num) : a.num[i] * b.den = b.num[i] * a.den

RECURSIVE SumEmbeddings(_, _)
SumEmbeddings(doc, j) ==
    IF j > Len(doc) THEN [i \in 1..Dim |-> 0]
    ELSE LET rest == SumEmbeddings(doc, j + 1)
         IN  [i \in 1..Dim |-> en_embeddings[doc[j]].num[i] + rest[i]]

\* the sum of the word embeddings of doc divided by its number of tokens
Mean(doc) == [num |-> SumEmbeddings(doc, 1), den |-> Len(doc), exc |-> ""]

\* C1: with k >= 1 the ranking returns the k highest-scoring rows in
\* non-increasing score order: consecutive results never increase in score and
\* no row left out scores strictly higher than a row in the result.
C1_TopKHighestNonIncreasing ==
    (Ranked /\ TopK >= 1) =>
        /\ \A j \in 1..(Len(top_indices) - 1) :
              ~ScoreLess(Score(top_indices[j]), Score(top_indices[j + 1]))
        /\ \A i \in 0..(NPosts - 1) :
              i \notin Range(top_indices) =>
                 \A j \in 1..Len(top_indices) : ~ScoreLess(Score(top_indices[j]), Score(i))

\* a result of two rows of different scores
C1_Witness ==
    /\ Ranked /\ TopK >= 1
    /\ Len(top_indices) = 2
    /\ ScoreLess(Score(top_indices[2]), Score(top_indices[1]))

\* C2: with k >= 1 the result of a query has exactly min(k, N) entries, and
\* for k >= N each index 0 .. N-1 appears exactly once.
C2_ResultLength ==
    (Ranked /\ TopK >= 1) =>
        /\ Len(top_indices) = Min(TopK, NPosts)
        /\ Len(top_posts) = Min(TopK, NPosts)
        /\ TopK >= NPosts =>
              \A i \in 0..(NPosts - 1) :
                 Cardinality({j \in 1..Len(top_indices) : top_indices[j] = i}) = 1

\* k exceeds the number of posts
C2_Witness == Ranked /\ NPosts >= 1 /\ TopK > NPosts /\ Len(top_posts) = NPosts

\* C3: of two results of equal score the one of lower index comes first, and
\* of two rows of equal score on either side of the cut-off the one of lower
\* index is the one selected.
C3_TiesLowerIndexFirst ==
    (Ranked /\ TopK >= 1) =>
        /\ \A j1, j2 \in 1..Len(top_indices) :
              (j1 < j2 /\ Score(top_indices[j1]) = Score(top_indices[j2]))
                 => top_indices[j1] < top_indices[j2]
        /\ \A i \in 0..(NPosts - 1) :
              i \notin Range(top_indices) =>
                 \A j \in 1..Len(top_indices) :
                    Score(top_indices[j]) = Score(i) => top_indices[j] < i

\* C4: the row of a post whose tokens all have an embedding is the average of
\* those embeddings.
C4_EncodingIsAverage ==
    "posts_vec_matrix" \in names =>
        \A i \in 1..Len(tokenized_posts) :
           (Len(tokenized_posts[i]) >= 1 /\ AllKnown(tokenized_posts[i]))
              => VecEq(posts_vec_matrix[i], Mean(tokenized_posts[i]))

\* C5: encoding the empty document or a document of unknown tokens only raises
\* no error and yields the zero vector of dimension Dim.
C5_MissingDataEncodesZero ==
    /\ ~(pc = "error" /\ err.exc \in {"KeyError", "ZeroDivisionError"}
                      /\ err.at \in {"vectorize_posts", "compute_doc_embedding"})
    /\ "posts_vec_matrix" \in names =>
          \A i \in 1..Len(tokenized_posts) :
             AllAbsent(tokenized_posts[i]) => IsZeroVector(posts_vec_matrix[i])
    /\ Ranked =>
          (AllAbsent(tokenized_queries[qi]) => IsZeroVector(query_embedding))

\* a post of unknown tokens only was encoded, then the empty query
C5_Witness ==
    /\ Ranked
    /\ tokenized_queries[qi] = <<>>
    /\ \E i \in 1..Len(tokenized_posts) :
          Len(tokenized_posts[i]) >= 1 /\ AllAbsent(tokenized_posts[i])

\* C6: for N >= 1 documents vectorize_posts returns N rows, row i the encoding
\* of the i-th document, and a dictionary of keys 0 .. N-1 whose value at i is
\* row i.
C6_RowsInInputOrder ==
    /\ (pc = "error" /\ err.at = "vectorize_posts") => Len(tokenized_posts) = 0
    /\ "posts_vec_matrix" \in names =>
          /\ Len(posts_vec_matrix) = Len(tokenized_posts)
          /\ \A i \in 1..Len(tokenized_posts) :
                posts_vec_matrix[i] = compute_doc_embedding(tokenized_posts[i])
          /\ DOMAIN ind2Doc_dict = 0..(Len(tokenized_posts) - 1)
          /\ \A i \in 0..(Len(tokenized_posts) - 1) :
                ind2Doc_dict[i] = posts_vec_matrix[i + 1]

\* two documents of different encodings
C6_Witness ==
    /\ "posts_vec_matrix" \in names
    /\ Len(posts_vec_matrix) = 2
    /\ posts_vec_matrix[1] # posts_vec_matrix[2]

Label(j) == str_join(" ", tokenized_queries[j])

C7_Keys ==
    pc \in {"query_loop", "write_output", "done"} =>
        /\ DOMAIN query_posts_similarities = {Label(j) : j \in 1..qi}
        /\ \A j \in 1..qi :
              /\ tokenized_queries[j] = <<"b", "a">> => "b a" \in DOMAIN query_posts_similarities
              /\ tokenized_queries[j] = <<>> => "" \in DOMAIN query_posts_similarities

C7_Step ==
    (pc = "query_loop" /\ qi' = qi + 1) =>
        /\ query_posts_similarities'[Label(qi')] = top_posts'
        /\ \A l \in (DOMAIN query_posts_similarities) \ {Label(qi')} :
              /\ l \in DOMAIN query_posts_similarities'
              /\ query_posts_similarities'[l] = query_posts_similarities[l]

\* C7: the result mapping has one key per label of the queries processed, the
\* label being the tokens joined by one space; each iteration stores its result
\* under its label, replacing an earlier result of the same label, and leaves
\* the results of the other labels as they were.
C7_LabelKeys == [](C7_Keys) /\ [][C7_Step]_vars

\* two queries of the same tokens processed, one key
C7_Witness ==
    /\ pc \in {"write_output", "done"} /\ qi = 2
    /\ Len(tokenized_queries[1]) = 2
    /\ tokenized_queries[1] = tokenized_queries[2]
    /\ Cardinality(DOMAIN query_posts_similarities) = 1

\* C8: the j-th record of a result carries the j-th index the ranking
\* returned, the raw text of the posts file at that index and the cosine score
\* of that row against the query.
C8_RecordsMatchIndices ==
    Ranked =>
        /\ Len(top_posts) = Len(top_indices)
        /\ \A j \in 1..Len(top_indices) :
              LET idx == top_indices[j]
              IN  /\ top_posts[j].post_ID = int_str(idx)
                  /\ top_posts[j].post_text = files.posts[idx + 1]
                  /\ top_posts[j].sim_score =
                        float_str(cosine(posts_vec_matrix[idx + 1], query_embedding))

\* a result of two records, one of a post that cleaning changed
C8_Witness ==
    /\ Ranked
    /\ Len(top_posts) = 2
    /\ top_posts[1].post_ID # top_posts[2].post_ID
    /\ \E j \in 1..2 : top_posts[j].post_text # clean(top_posts[j].post_text)

\* C9: with ifpreprocess false the run does not stop at the posts cell and the
\* posts are tokenized as read, without cleaning.
C9_CleaningOptional ==
    ("configurations" \in names /\ ~configurations["ifpreprocess"]) =>
        /\ ~(pc = "error" /\ err.at = "preprocess_posts")
        /\ "tokenized_posts" \in names => tokenized_posts = tokenize_posts(ls_posts)

\* C10: with top-k <= 0 no iteration of the query loop completes with a result.
C10_NonPositiveTopKRejected ==
    ("configurations" \in names /\ TopK <= 0) => ~Ranked

\* C11: an empty corpus is not an error: the run does not stop when the index
\* is built from zero documents, and every query then gets an empty result.
C11_EmptyCorpusNotAnError ==
    ("tokenized_posts" \in names /\ Len(tokenized_posts) = 0) =>
        /\ pc # "error"
        /\ Ranked => (top_indices = <<>> /\ top_posts = <<>>)

\* C13: for an empty query every score is 0 and the result is the rows
\* 0, 1, ..., min(k, N) - 1 in ascending index order.
C13_EmptyQueryIndexOrder ==
    (Ranked /\ TopK >= 1 /\ tokenized_queries[qi] = <<>>) =>
        /\ \A i \in 0..(NPosts - 1) : Score(i) = ZeroScore
        /\ top_indices = [j \in 1..Min(TopK, NPosts) |-> j - 1]

RECURSIVE encode_with(_, _, _, _)
\* the encoding of post computed from the entries of store
encode_with(post, store, i, acc) ==
    IF i > Len(post) \/ acc.exc # "" THEN acc
    ELSE encode_with(post, store, i + 1,
                     np_divide(np_iadd(acc, dict_get(store, post[i], np_zeros)),
                               Len(post)))

\* C12: the matrix vectorize_posts returns is determined by the documents and
\* the store passed to it: it is the matrix of the encodings of the documents
\* under that store, whatever the global en_embeddings holds.
C12_BuildReadsItsArguments ==
    "posts_vec_matrix" \in names =>
        /\ Len(posts_vec_matrix) = Len(tokenized_posts)
        /\ \A i \in 1..Len(tokenized_posts) :
              posts_vec_matrix[i] = encode_with(tokenized_posts[i], store_arg, 1, np_zeros)

\* the indices of the posts that hold the token of the query
MatchingRows == {i \in 0..(NPosts - 1) : "s" \in Range(tokenized_posts[i + 1])}

\* C14: with top-k 2 over three posts of which two hold the token of the query
\* and the third only tokens of orthogonal or opposite embeddings, the result
\* is the two matching posts, each scoring strictly above the third.
C14_MatchingPostsRankedFirst ==
    Ranked =>
        /\ Len(top_indices) = 2
        /\ Range(top_indices) = MatchingRows
        /\ \A i \in 0..(NPosts - 1) :
              i \notin MatchingRows =>
                 \A m \in MatchingRows : ScoreLess(Score(i), Score(m))

\* the third post comes first in the corpus, a matching post holds unknown and
\* orthogonal tokens around the token of the query
C14_Witness ==
    /\ Ranked
    /\ Cardinality(MatchingRows) = 2
    /\ 0 \notin MatchingRows
    /\ tokenized_posts[2] = <<"u", "l", "s", "u">>
    /\ tokenized_posts[1] = <<"l", "r">>

\* the stored embedding of a token, the zero vector for an absent token
Emb(token) ==
    IF token \in DOMAIN en_embeddings THEN en_embeddings[token].num
    ELSE [c \in 1..Dim |-> 0]

\* the running sum after the i-th token of doc, as a vector of numerators over
\* one denominator, when each step divides by the number of tokens so far
\* (byIndex) or by the number of tokens of the document
RECURSIVE RunningSum(_, _, _)
RunningSum(doc, i, byIndex) ==
    IF i = 0 THEN [num |-> [c \in 1..Dim |-> 0], den |-> 1, exc |-> ""]
    ELSE LET prev == RunningSum(doc, i - 1, byIndex)
             by == IF byIndex THEN i ELSE Len(doc)
         IN  [num |-> [c \in 1..Dim |-> prev.num[c] + Emb(doc[i])[c] * prev.den],
              den |-> prev.den * by, exc |-> ""]

MissingKey == ~(RequiredKeys \subseteq DOMAIN files.config)

\* C16: a run whose configuration lacks a required key stops with an error
\* before any document is encoded, before the corpus matrix is built and
\* before any query is scored.
C16_MissingKeyFatalBeforeComputation ==
    MissingKey =>
        /\ "posts_vec_matrix" \notin names
        /\ cosine_score = <<>>
        /\ pc # "done"

\* C17 as stated: whenever the list of raw texts is shorter than the matrix
\* has rows, no search with k >= 1 completes: every one fails.
C17_ShorterTextsAlwaysFail ==
    ("posts_vec_matrix" \in names /\ Len(ls_posts) < NPosts /\ TopK >= 1)
        => ~Ranked

\* C17 amended: a search fails with IndexError exactly when one of the ranked
\* indices is not a position of the list of raw texts, whatever the lengths;
\* a search that completes holds, for every ranked index, the text at that
\* index and never a text of another position.
C17_IndexErrorWhenRankedIndexOutOfRange ==
    /\ (pc = "error" /\ err.exc = "IndexError") =>
          \E j \in 1..Len(top_indices) : top_indices[j] >= Len(ls_posts)
    /\ Ranked =>
          /\ Len(top_posts) = Len(top_indices)
          /\ \A j \in 1..Len(top_indices) :
                /\ top_indices[j] < Len(ls_posts)
                /\ top_posts[j].post_text = ls_posts[top_indices[j] + 1]
                /\ top_posts[j].post_ID = int_str(top_indices[j])

\* the list of raw texts was reloaded shorter than the matrix and a query for
\* k >= 1 failed on an index past its end
C17_Witness ==
    /\ pc = "error"
    /\ err.exc = "IndexError"
    /\ TopK >= 1
    /\ Len(ls_posts) >= 1
    /\ Len(ls_posts) < NPosts

\* doc holds a token whose stored vector is not of the run's dimension
HoldsWrongLength(doc) ==
    \E j \in 1..Len(doc) :
       /\ doc[j] \in DOMAIN en_embeddings
       /\ Len(en_embeddings[doc[j]].num) # Dim

\* C18: a stored vector of a length other than Dim is never accepted: no
\* document or query holding its token is ever encoded, the run aborts instead.
C18_WrongLengthNeverAccepted ==
    /\ "posts_vec_matrix" \in names =>
          \A i \in 1..Len(tokenized_posts) : ~HoldsWrongLength(tokenized_posts[i])
    /\ Ranked => ~HoldsWrongLength(tokenized_queries[qi])

\* C19: the embedding store, the corpus matrix and the index dictionary are
\* read-only once built: no step of the run, encoding a document or evaluating
\* a query, changes an entry of the store after it is loaded or a row of the
\* matrix or an entry of the dictionary after they are built.
C19_Step ==
    /\ "en_embeddings" \in names => en_embeddings' = en_embeddings
    /\ "posts_vec_matrix" \in names =>
          /\ posts_vec_matrix' = posts_vec_matrix
          /\ ind2Doc_dict' = ind2Doc_dict

C19_ReadOnlyOnceBuilt ==
    /\ [](("en_embeddings" \in names) => (en_embeddings = files.embeddings))
    /\ [][C19_Step]_vars

\* documents and queries holding known tokens have been encoded and the run
\* has come to its end
C19_Witness ==
    /\ pc = "done"
    /\ qi >= 2
    /\ \E i \in 1..Len(tokenized_posts) :
          Len(tokenized_posts[i]) >= 2 /\ AllKnown(tokenized_posts[i])
    /\ \E q \in 1..Len(tokenized_queries) :
          \E j \in 1..Len(tokenized_queries[q]) :
             tokenized_queries[q][j] \in DOMAIN en_embeddings

RECURSIVE Pow(_, _)
Pow(b, e) == IF e = 0 THEN 1 ELSE b * Pow(b, e - 1)

\* the sum over i of Emb(doc[i]) * L^(i-1), from position j on
RECURSIVE WeightedSum(_, _)
WeightedSum(doc, j) ==
    IF j > Len(doc) THEN [c \in 1..Dim |-> 0]
    ELSE LET rest == WeightedSum(doc, j + 1)
         IN  [c \in 1..Dim |-> Emb(doc[j])[c] * Pow(Len(doc), j - 1) + rest[c]]

\* the sum over i of Emb(doc[i]) / L^(L-i+1), over the denominator L^L
ClosedForm(doc) ==
    [num |-> WeightedSum(doc, 1), den |-> Pow(Len(doc), Len(doc)), exc |-> ""]

EncodedAsClosedForm(doc, v) ==
    Len(doc) >= 1 =>
       /\ VecEq(v, ClosedForm(doc))
       /\ (Len(doc) = 1 /\ doc[1] \in DOMAIN en_embeddings)
             => VecEq(v, en_embeddings[doc[1]])
       /\ Len(doc) >= 2 =>
             \A i \in 1..(Len(doc) - 1) :
                \* 1 / L^(L-i+1) < 1 / L^(L-i)
                Pow(Len(doc), Len(doc) - i) < Pow(Len(doc), Len(doc) - i + 1)

====
